---- MODULE Spec2Model ----
(***************************************************************************)
(* A model of the orchestration layer of the agents package:               *)
(*   - DevelopmentWorkflow.execute (agents/workflows/development_workflow) *)
(*   - WorkflowCoordinator          (agents/workflows/workflow_coordinator)*)
(*   - LLMManager                   (agents/llm/llm_manager)               *)
(*   - AgentCoordinator             (agents/core/agent_coordinator)        *)
(*   - WebSearchTool, SemanticSearchTool (agents/tools)                    *)
(* Each component has its own specification over its own variables; the    *)
(* variables of the other components stay at their initial values.         *)
(***************************************************************************)
EXTENDS Integers, Sequences, FiniteSets, TLC

VARIABLES
    config,        \* DevelopmentWorkflow.config, per workflow object
    oracle,        \* failure pattern: whether the k-th _delegate_to_workpool call
                   \* of an execute() raises, as far as it has been revealed
    wf,            \* the DevelopmentWorkflow objects and the frames of their execute()
    active_workflows,  \* WorkflowCoordinator.active_workflows: id -> instance
    workflow_queue,    \* WorkflowCoordinator.workflow_queue
    co,            \* the frame of the coordinator method that is running
    returned,      \* what the last coordinator method returned
    ops,           \* number of coordinator methods called so far
    llm,           \* LLMManager: which integrations exist, config.enable_fallback
    call,          \* the frame of the LLMManager method that is running
    active_agents, \* AgentCoordinator.active_agents, in insertion order
    task_queue,    \* AgentCoordinator.task_queue
    at,            \* the frame of AgentCoordinator.assign_task
    search         \* the frame of a search tool's search method

wfVars == <<config, oracle, wf>>

coordVars == <<active_workflows, workflow_queue, co, returned, ops>>

llmVars == <<llm, call>>

agVars == <<active_agents, task_queue, at>>

toolVars == <<search>>

vars == <<config, oracle, wf, active_workflows, workflow_queue, co, returned, ops,
          llm, call, active_agents, task_queue, at, search>>

(***************************************************************************)
(* Bounds of the model.                                                    *)
(***************************************************************************)
MaxSteps == 3      \* longest config.steps explored
MaxRetry == 3      \* largest config.retry_attempts explored
MaxOps   == 3      \* coordinator method calls explored in one behaviour
MaxRequired == 2   \* longest task.required_agents explored
MaxResults == 8    \* largest max_results explored (and the least, negated)

(***************************************************************************)
(* development_workflow.py: enums and dataclasses                          *)
(***************************************************************************)
WorkflowStep == {"architecture_design", "coding"}

PENDING   == "pending"
RUNNING   == "running"
COMPLETED == "completed"
FAILED    == "failed"
CANCELLED == "cancelled"

WorkflowStatus == {PENDING, RUNNING, COMPLETED, FAILED, CANCELLED}

StepResult(step, status) == [step |-> step, status |-> status]

RECURSIVE SeqsUpTo(_, _)
SeqsUpTo(S, n) ==
    IF n = 0 THEN {<<>>}
    ELSE LET shorter == SeqsUpTo(S, n - 1)
         IN  shorter \cup {Append(s, x) : s \in {t \in shorter : Len(t) = n - 1}, x \in S}

(***************************************************************************)
(* llm_manager.py: enums, LLMManager.__init__                              *)
(***************************************************************************)
GPT    == "gpt"
CLAUDE == "claude"
AUTO   == "auto"
None   == "None"

LLMProvider == {GPT, CLAUDE, AUTO}

TaskType == {"code_generation", "code_analysis", "architecture",
             "requirements_analysis", "general"}

\* LLMManager.__init__: task type preferences for each provider
provider_preferences ==
    [t \in TaskType |->
        CASE t = "code_generation"       -> GPT
          [] t = "code_analysis"         -> CLAUDE
          [] t = "architecture"          -> CLAUDE
          [] t = "requirements_analysis" -> CLAUDE
          [] t = "general"               -> AUTO]

\* What an integration's generate_response does when called: it returns a
\* response, returns None, or raises.
Outcomes == {"response", "none", "raises"}

IdleCall ==
    [pc                |-> "idle",
     task_type         |-> None,
     provider          |-> None,
     selected_provider |-> None,
     outcome           |-> << >>,
     attempts          |-> << >>,   \* history: providers passed to _try_provider
     called            |-> << >>,   \* history: integrations actually called
     response          |-> None]    \* the returned response, named by its provider

\* The other components while the LLM manager is not used.
LlmIdle ==
    /\ llm = [gpt |-> FALSE, claude |-> FALSE, enable_fallback |-> TRUE]
    /\ call = IdleCall

WfIdle ==
    /\ config = << >>
    /\ oracle = << >>
    /\ wf = << >>

(***************************************************************************)
(* agent_coordinator.py: AgentCoordinator.__init__ and the frame of        *)
(* assign_task                                                             *)
(***************************************************************************)
\* The dict assign_task returns: its status, the keys it has, and its
\* "results" list (empty when the dict has no such key).
TaskResult(status, keys, results) ==
    [status |-> status, keys |-> keys, results |-> results]

IdleAssign ==
    [pc              |-> "idle",
     required_agents |-> << >>,    \* task.required_agents
     suitable_agents |-> << >>,
     i               |-> 0,        \* position of _coordinate_agents in agents
     result          |-> [is_dict |-> FALSE, keys |-> {}],
     results         |-> << >>,
     invoked         |-> << >>,    \* history: the agent methods awaited
     outputs         |-> << >>,    \* history: what process_task returned
     ret             |-> TaskResult("none", {}, << >>)]

\* The other components while the agent coordinator is not used.
AgIdle ==
    /\ active_agents = << >>
    /\ task_queue = << >>
    /\ at = IdleAssign

(***************************************************************************)
(* tools/web_search.py, tools/semantic_search.py: the frame of search      *)
(***************************************************************************)
IdleSearch ==
    [pc |-> "idle", tool |-> "", query |-> "", max_results |-> 0, results |-> << >>]

\* The other components while no search tool is used.
ToolIdle == search = IdleSearch

(***************************************************************************)
(* workflow_coordinator.py: WorkflowCoordinator                            *)
(*                                                                         *)
(* Nothing the coordinator awaits ever suspends, so a method runs from its *)
(* call to its return without another method in between; the frame `co`    *)
(* shows the states _process_workflow_queue passes through meanwhile.      *)
(***************************************************************************)
max_concurrent_workflows == 5

WorkflowIds == 1..(max_concurrent_workflows + 1)

Projects == {"A", "B"}

\* cleanup_completed_workflows: values of max_age_hours
MaxAgeHours == {-1, 0, 24}

\* WorkflowInstance built by start_development_workflow around a new
\* DevelopmentWorkflow (whose status starts PENDING).
WorkflowInstance(project_id) ==
    [project_id      |-> project_id,
     status          |-> PENDING,
     workflow_object |-> [status |-> PENDING],
     completed_at    |-> FALSE]

\* The frame of start_development_workflow and of the _process_workflow_queue
\* it calls: the arguments (project_id, config.workflow_id) and the locals
\* running_count and workflow_id.
IdleFrame ==
    [pc |-> "idle", project_id |-> "", config_workflow_id |-> 0,
     running_count |-> 0, workflow_id |-> 0]

\* What a method returned.
Return(method, value) == [method |-> method, value |-> value]

NoReturn == Return("none", "none")

\* WorkflowCoordinator.__init__
CoordIdle ==
    /\ active_workflows = << >>
    /\ workflow_queue = << >>
    /\ co = IdleFrame
    /\ returned = NoReturn
    /\ ops = 0

Known(id) == id \in DOMAIN active_workflows

\* Number of instances whose coordinator status is RUNNING.
RunningCount(aw) == Cardinality({id \in DOMAIN aw : aw[id].status = RUNNING})

\* A caller may pass any workflow_id; ids are opaque to the coordinator, so
\* a start uses an id already in active_workflows or the least unused one.
StartIds ==
    LET unused == WorkflowIds \ DOMAIN active_workflows
    IN  DOMAIN active_workflows \cup
        (IF unused = {} THEN {} ELSE {CHOOSE id \in unused : \A o \in unused : id <= o})

\* Mutant: the await of execute() suspends _process_workflow_queue, so that
\* another coroutine enters a method meanwhile.
CanCall_WhileAwaiting == co.pc \in {"idle", "execute"} /\ ops < MaxOps

\* A method can be called when none is running: a coroutine on the event
\* loop runs until an await suspends it, and DevelopmentWorkflow.execute,
\* pause, resume and cancel await nothing that suspends, so of the coroutines
\* in flight one runs from its call to its return before the next begins.
CanCall == co.pc = "idle" /\ ops < MaxOps

Put(aw, id, inst) == [k \in DOMAIN aw \cup {id} |-> IF k = id THEN inst ELSE aw[k]]

\* start_development_workflow, lines 61-78, up to the first test of the
\* loop of _process_workflow_queue (lines 213-214).
StartDevelopmentWorkflow(project_id, workflow_id) ==
    /\ CanCall
    /\ LET aw == Put(active_workflows, workflow_id, WorkflowInstance(project_id))
       IN  /\ active_workflows' = aw
           /\ workflow_queue' = Append(workflow_queue, workflow_id)
           /\ co' = [pc |-> "queue", project_id |-> project_id,
                     config_workflow_id |-> workflow_id,
                     running_count |-> RunningCount(aw), workflow_id |-> 0]
    /\ ops' = ops + 1
    /\ UNCHANGED <<returned, wfVars, llmVars, agVars, toolVars>>

\* The loop condition of _process_workflow_queue, lines 216-217.
HasCapacity == co.running_count < max_concurrent_workflows /\ workflow_queue # << >>

\* Lines 219-229: pop the head of the queue; a PENDING instance is set RUNNING
\* and its execute() is entered (which sets the workflow's own status).
ProcessWorkflowQueue ==
    /\ co.pc = "queue"
    /\ HasCapacity
    /\ LET workflow_id == Head(workflow_queue)
       IN  /\ workflow_queue' = Tail(workflow_queue)
           /\ IF Known(workflow_id) /\ active_workflows[workflow_id].status = PENDING
              THEN /\ active_workflows' =
                         [active_workflows EXCEPT
                             ![workflow_id].status = RUNNING,
                             ![workflow_id].workflow_object.status = RUNNING]
                   /\ co' = [co EXCEPT !.pc = "execute", !.workflow_id = workflow_id]
              ELSE UNCHANGED <<active_workflows, co>>
    /\ UNCHANGED <<returned, ops, wfVars, llmVars, agVars, toolVars>>

\* Lines 229-235: execute() returns (it never raises) with the workflow
\* COMPLETED or FAILED; the instance is marked COMPLETED either way.
ExecuteReturns(workflow_status) ==
    /\ co.pc = "execute"
    /\ active_workflows' =
          [active_workflows EXCEPT
              ![co.workflow_id].workflow_object.status = workflow_status,
              ![co.workflow_id].status = COMPLETED,
              ![co.workflow_id].completed_at = TRUE]
    /\ co' = [co EXCEPT !.pc = "queue", !.running_count = @ + 1]
    /\ UNCHANGED <<workflow_queue, returned, ops, wfVars, llmVars, agVars, toolVars>>

\* The loop ends; start_development_workflow returns the workflow id (line 80).
StartReturns ==
    /\ co.pc = "queue"
    /\ ~HasCapacity
    /\ returned' = Return("start_development_workflow", co.config_workflow_id)
    /\ co' = IdleFrame
    /\ UNCHANGED <<active_workflows, workflow_queue, ops, wfVars, llmVars, agVars, toolVars>>

\* The dict get_workflow_status builds for a known workflow; progress is
\* DevelopmentWorkflow.get_progress(), of which the status is kept.
WorkflowStatusInfo(aw, workflow_id) ==
    [workflow_id  |-> workflow_id,
     project_id   |-> aw[workflow_id].project_id,
     status       |-> aw[workflow_id].status,
     completed_at |-> aw[workflow_id].completed_at,
     progress     |-> [status |-> aw[workflow_id].workflow_object.status]]

\* The Optional[Dict] that get_workflow_status returns is the set of at most
\* one dict: None is the empty set.
NoInfo == {}

\* get_workflow_status
GetWorkflowStatus(workflow_id) ==
    /\ CanCall
    /\ returned' = Return("get_workflow_status",
                          IF ~Known(workflow_id) THEN NoInfo
                          ELSE {WorkflowStatusInfo(active_workflows, workflow_id)})
    /\ ops' = ops + 1
    /\ UNCHANGED <<active_workflows, workflow_queue, co, wfVars, llmVars, agVars, toolVars>>

\* get_project_workflows: the status dicts of the workflows of a project.
ProjectWorkflows(aw, project_id) ==
    {WorkflowStatusInfo(aw, id) : id \in {k \in DOMAIN aw : aw[k].project_id = project_id}}

\* pause_workflow: DevelopmentWorkflow.pause() returns True whatever the state.
PauseWorkflow(workflow_id) ==
    /\ CanCall
    /\ IF ~Known(workflow_id)
       THEN returned' = Return("pause_workflow", FALSE) /\ UNCHANGED active_workflows
       ELSE /\ active_workflows' = [active_workflows EXCEPT ![workflow_id].status = PENDING]
            /\ returned' = Return("pause_workflow", TRUE)
    /\ ops' = ops + 1
    /\ UNCHANGED <<workflow_queue, co, wfVars, llmVars, agVars, toolVars>>

\* resume_workflow: DevelopmentWorkflow.resume() returns True whatever the state.
ResumeWorkflow(workflow_id) ==
    /\ CanCall
    /\ IF ~Known(workflow_id)
       THEN returned' = Return("resume_workflow", FALSE) /\ UNCHANGED active_workflows
       ELSE /\ active_workflows' = [active_workflows EXCEPT ![workflow_id].status = RUNNING]
            /\ returned' = Return("resume_workflow", TRUE)
    /\ ops' = ops + 1
    /\ UNCHANGED <<workflow_queue, co, wfVars, llmVars, agVars, toolVars>>

\* Mutant: cancel_workflow reports success for a workflow it does not know.
CancelWorkflow_UnknownSucceeds(workflow_id) ==
    /\ CanCall
    /\ IF ~Known(workflow_id)
       THEN UNCHANGED active_workflows
       ELSE active_workflows' =
               [active_workflows EXCEPT
                   ![workflow_id].workflow_object.status = CANCELLED,
                   ![workflow_id].status = CANCELLED,
                   ![workflow_id].completed_at = TRUE]
    /\ returned' = Return("cancel_workflow", TRUE)
    /\ ops' = ops + 1
    /\ UNCHANGED <<workflow_queue, co, wfVars, llmVars, agVars, toolVars>>

\* Mutant: cancel_workflow marks the instance without cancelling the workflow
\* object.
CancelWorkflow_KeepsObject(workflow_id) ==
    /\ CanCall
    /\ IF ~Known(workflow_id)
       THEN returned' = Return("cancel_workflow", FALSE) /\ UNCHANGED active_workflows
       ELSE /\ active_workflows' =
                  [active_workflows EXCEPT
                      ![workflow_id].status = CANCELLED,
                      ![workflow_id].completed_at = TRUE]
            /\ returned' = Return("cancel_workflow", TRUE)
    /\ ops' = ops + 1
    /\ UNCHANGED <<workflow_queue, co, wfVars, llmVars, agVars, toolVars>>

\* cancel_workflow: DevelopmentWorkflow.cancel() sets its status and returns True.
CancelWorkflow(workflow_id) ==
    /\ CanCall
    /\ IF ~Known(workflow_id)
       THEN returned' = Return("cancel_workflow", FALSE) /\ UNCHANGED active_workflows
       ELSE /\ active_workflows' =
                  [active_workflows EXCEPT
                      ![workflow_id].workflow_object.status = CANCELLED,
                      ![workflow_id].status = CANCELLED,
                      ![workflow_id].completed_at = TRUE]
            /\ returned' = Return("cancel_workflow", TRUE)
    /\ ops' = ops + 1
    /\ UNCHANGED <<workflow_queue, co, wfVars, llmVars, agVars, toolVars>>

\* Mutant: the age test is made without looking at the status.
TooOld_IgnoresStatus(inst, max_age_hours) ==
    /\ inst.completed_at
    /\ 0 > max_age_hours * 60 * 60 * 1000

\* Lines 269-278: current_time and every completed_at are the same mock
\* timestamp, so the age of a completed workflow is 0.
TooOld(inst, max_age_hours) ==
    /\ inst.status \in {COMPLETED, FAILED, CANCELLED}
    /\ inst.completed_at
    /\ 0 > max_age_hours * 60 * 60 * 1000

\* cleanup_completed_workflows
CleanupCompletedWorkflows(max_age_hours) ==
    /\ CanCall
    /\ LET workflows_to_remove ==
              {id \in DOMAIN active_workflows : TooOld(active_workflows[id], max_age_hours)}
       IN  /\ active_workflows' =
                 [id \in DOMAIN active_workflows \ workflows_to_remove |-> active_workflows[id]]
           /\ returned' = Return("cleanup_completed_workflows",
                                 Cardinality(workflows_to_remove))
    /\ ops' = ops + 1
    /\ UNCHANGED <<workflow_queue, co, wfVars, llmVars, agVars, toolVars>>

\* An instance that was started, ran to completion and was then resumed
\* (start_development_workflow, then resume_workflow).
ResumedInstance(project_id) ==
    [project_id      |-> project_id,
     status          |-> RUNNING,
     workflow_object |-> [status |-> COMPLETED],
     completed_at    |-> TRUE]

\* A coordinator on which some workflows were started one after the other
\* and resumed after their completion.
Init ==
    /\ \E n \in 0..max_concurrent_workflows :
          active_workflows = [id \in 1..n |-> ResumedInstance("A")]
    /\ workflow_queue = << >>
    /\ co = IdleFrame
    /\ returned = NoReturn
    /\ ops = 0
    /\ WfIdle
    /\ LlmIdle
    /\ AgIdle
    /\ ToolIdle

Next ==
    \/ \E project_id \in Projects, workflow_id \in StartIds :
          StartDevelopmentWorkflow(project_id, workflow_id)
    \/ ProcessWorkflowQueue
    \/ \E workflow_status \in {COMPLETED, FAILED} : ExecuteReturns(workflow_status)
    \/ StartReturns
    \/ \E workflow_id \in WorkflowIds : GetWorkflowStatus(workflow_id)
    \/ \E workflow_id \in WorkflowIds : PauseWorkflow(workflow_id)
    \/ \E workflow_id \in WorkflowIds : ResumeWorkflow(workflow_id)
    \/ \E workflow_id \in WorkflowIds : CancelWorkflow(workflow_id)
    \/ \E max_age_hours \in MaxAgeHours : CleanupCompletedWorkflows(max_age_hours)

Spec == Init /\ [][Next]_vars

(***************************************************************************)
(* llm_manager.py: provider selection and generate_response                *)
(***************************************************************************)
\* Mutant: the preferred provider is returned whether or not it is configured.
SelectProvider_IgnoresAvailability(task_type) ==
    LET preferred == provider_preferences[task_type]
    IN  IF preferred = AUTO THEN GPT ELSE preferred

\* _select_provider
SelectProvider(task_type) ==
    LET preferred == provider_preferences[task_type]
    IN  CASE preferred = AUTO /\ llm.gpt /\ llm.claude -> GPT
          [] preferred = AUTO /\ llm.gpt /\ ~llm.claude -> GPT
          [] preferred = AUTO /\ ~llm.gpt /\ llm.claude -> CLAUDE
          [] preferred = GPT /\ llm.gpt -> GPT
          [] preferred = CLAUDE /\ llm.claude -> CLAUDE
          [] OTHER -> IF llm.gpt THEN GPT
                      ELSE IF llm.claude THEN CLAUDE
                      ELSE GPT

\* Mutant: the "fallback" is the primary provider again.
GetFallbackProvider_Same(primary) == primary

\* Mutant: no fallback provider is ever found.
GetFallbackProvider_Never(primary) == None

\* _get_fallback_provider
GetFallbackProvider(primary) ==
    IF primary = GPT /\ llm.claude THEN CLAUDE
    ELSE IF primary = CLAUDE /\ llm.gpt THEN GPT
    ELSE None

\* _try_provider calls an integration only when it is configured.
Calls(provider) ==
    \/ provider = GPT /\ llm.gpt
    \/ provider = CLAUDE /\ llm.claude

\* _try_provider: the integration's response; None when the provider is not
\* configured, returns None or raises.
TryProvider(provider) ==
    IF Calls(provider) /\ call.outcome[provider] = "response" THEN provider ELSE None

\* The histories after _try_provider(provider).
Tried(provider) ==
    [attempts |-> Append(call.attempts, provider),
     called   |-> IF Calls(provider) THEN Append(call.called, provider) ELSE call.called]

\* No method of the manager is running.
NoCall == call.pc \in {"idle", "returned", "generate_code", "analyze_code"}

\* What a method returns when the integration it awaits raises: nothing in
\* generate_code and analyze_code catches it.
RAISED == "raised"

\* What the one integration method that generate_code or analyze_code awaits
\* gives: the code or analysis made from the integration's response (named
\* by the provider), None when the integration returns None, and whatever
\* escapes the integration escapes the manager's method too.
Awaited(provider, outcome) ==
    CASE outcome[provider] = "response" -> provider
      [] outcome[provider] = "none"     -> None
      [] outcome[provider] = "raises"   -> RAISED

\* generate_code, from its call to its return (pc "generate_code"):
\* GPTIntegration.generate_code when GPT is configured, else Claude's
\* generate_response, else None.
GenerateCode(outcome) ==
    /\ NoCall
    /\ call' = [IdleCall EXCEPT
                   !.pc = "generate_code",
                   !.outcome = outcome,
                   !.called = IF llm.gpt THEN <<GPT>>
                              ELSE IF llm.claude THEN <<CLAUDE>> ELSE << >>,
                   !.response = IF llm.gpt THEN Awaited(GPT, outcome)
                                ELSE IF llm.claude THEN Awaited(CLAUDE, outcome)
                                ELSE None]
    /\ UNCHANGED <<llm, wfVars, coordVars, agVars, toolVars>>

\* analyze_code, from its call to its return (pc "analyze_code"):
\* ClaudeIntegration.analyze_codebase when Claude is configured, else GPT's
\* generate_response, else None.
AnalyzeCode(outcome) ==
    /\ NoCall
    /\ call' = [IdleCall EXCEPT
                   !.pc = "analyze_code",
                   !.outcome = outcome,
                   !.called = IF llm.claude THEN <<CLAUDE>>
                              ELSE IF llm.gpt THEN <<GPT>> ELSE << >>,
                   !.response = IF llm.claude THEN Awaited(CLAUDE, outcome)
                                ELSE IF llm.gpt THEN Awaited(GPT, outcome)
                                ELSE None]
    /\ UNCHANGED <<llm, wfVars, coordVars, agVars, toolVars>>

\* generate_response, line 83: a new call; `outcome` is what each integration
\* would do during this call.
GenerateResponse(task_type, provider, outcome) ==
    /\ NoCall
    /\ call' = [IdleCall EXCEPT
                   !.pc = "primary",
                   !.task_type = task_type,
                   !.provider = provider,
                   !.outcome = outcome,
                   !.selected_provider =
                       IF provider # None THEN provider ELSE SelectProvider(task_type)]
    /\ UNCHANGED <<llm, wfVars, coordVars, agVars, toolVars>>

\* Lines 88-90: try the primary provider.
TryPrimary ==
    /\ call.pc = "primary"
    /\ LET response == TryProvider(call.selected_provider)
           h        == Tried(call.selected_provider)
       IN  call' = [call EXCEPT
                       !.attempts = h.attempts,
                       !.called   = h.called,
                       !.response = response,
                       !.pc       = IF response # None THEN "returned" ELSE "fallback"]
    /\ UNCHANGED <<llm, wfVars, coordVars, agVars, toolVars>>

\* Mutant: an explicitly passed provider does not disable the fallback.
FallbackEnabled_IgnoresProvider == llm.enable_fallback

\* The guard of line 93.
FallbackEnabled == llm.enable_fallback /\ call.provider = None

\* Lines 93-102: try the fallback provider and return its response or None.
TryFallback ==
    /\ call.pc = "fallback"
    /\ FallbackEnabled
    /\ GetFallbackProvider(call.selected_provider) # None
    /\ LET fallback_provider == GetFallbackProvider(call.selected_provider)
           h                 == Tried(fallback_provider)
       IN  call' = [call EXCEPT
                       !.attempts = h.attempts,
                       !.called   = h.called,
                       !.response = TryProvider(fallback_provider),
                       !.pc       = "returned"]
    /\ UNCHANGED <<llm, wfVars, coordVars, agVars, toolVars>>

\* Lines 93-95 and 101-102: no fallback is made; return None.
ReturnNone ==
    /\ call.pc = "fallback"
    /\ ~(FallbackEnabled /\ GetFallbackProvider(call.selected_provider) # None)
    /\ call' = [call EXCEPT !.response = None, !.pc = "returned"]
    /\ UNCHANGED <<llm, wfVars, coordVars, agVars, toolVars>>

LlmInit ==
    /\ llm \in [gpt : BOOLEAN, claude : BOOLEAN, enable_fallback : BOOLEAN]
    /\ call = IdleCall
    /\ WfIdle
    /\ CoordIdle
    /\ AgIdle
    /\ ToolIdle

LlmNext ==
    \/ \E task_type \in TaskType, provider \in LLMProvider \cup {None},
          outcome \in [{GPT, CLAUDE} -> Outcomes] :
          GenerateResponse(task_type, provider, outcome)
    \/ TryPrimary
    \/ TryFallback
    \/ ReturnNone
    \/ \E outcome \in [{GPT, CLAUDE} -> Outcomes] : GenerateCode(outcome)
    \/ \E outcome \in [{GPT, CLAUDE} -> Outcomes] : AnalyzeCode(outcome)

LlmSpec == LlmInit /\ [][LlmNext]_vars

(***************************************************************************)
(* development_workflow.py: DevelopmentWorkflow.execute                    *)
(***************************************************************************)
\* The two workflow objects a caller builds from configurations that differ
\* in parallel_execution only: object 1 runs sequentially, object 2 "in parallel".
Objs == {1, 2}

WorkflowConfig(steps, parallel, retries) ==
    [steps |-> steps, parallel_execution |-> parallel, retry_attempts |-> retries]

\* DevelopmentWorkflow.__init__
NewWorkflow ==
    [pc           |-> "new",
     current_step |-> 0,
     step_results |-> <<>>,
     status       |-> PENDING,
     results      |-> <<>>,      \* local of _execute_sequential
     i            |-> 1,         \* position of the for loop in config.steps
     retry_count  |-> 0,         \* local of _execute_sequential
     result       |-> "none",    \* status of the local `result`
     exc          |-> FALSE,     \* an exception is propagating
     ret          |-> "none",    \* "status" of the dict execute returned
     calls        |-> 0,         \* _delegate_to_workpool calls made so far
     trace        |-> <<>>]      \* history: the step executions, in order

\* Most step executions execute can make for a configuration.
MaxCalls(c) == Len(c.steps) * (1 + c.retry_attempts)

WfInit ==
    /\ \E steps \in SeqsUpTo(WorkflowStep, MaxSteps), r \in 0..MaxRetry :
          /\ config = [w \in Objs |-> WorkflowConfig(steps, w = 2, r)]
          /\ oracle = <<>>
    /\ wf = [w \in Objs |-> NewWorkflow]
    /\ CoordIdle
    /\ LlmIdle
    /\ AgIdle
    /\ ToolIdle

\* The caller awaits one execute() after the other.
Turn(w) == \A v \in Objs : v < w => wf[v].pc = "done"

\* _delegate_to_workpool: the k-th call of every execute() meets the same
\* outcome; the first execute() to make a k-th call reveals it.
DelegateToWorkpool(w, raises) ==
    LET k == wf[w].calls + 1
    IN  IF k <= Len(oracle)
        THEN raises = oracle[k] /\ UNCHANGED oracle
        ELSE oracle' = Append(oracle, raises)

\* _execute_step: COMPLETED when the delegation returns, FAILED when it raises.
ExecuteStepStatus(raises) == IF raises THEN FAILED ELSE COMPLETED

\* The bookkeeping of one _execute_step call on step position i.
Called(w, st) ==
    [calls |-> wf[w].calls + 1,
     trace |-> Append(wf[w].trace,
                      [pos |-> wf[w].i, step |-> config[w].steps[wf[w].i], status |-> st])]

\* execute, lines 74-81: set RUNNING and pick the code path.
Execute(w) ==
    /\ Turn(w)
    /\ wf[w].pc = "new"
    /\ wf' = [wf EXCEPT ![w].status = RUNNING,
                        ![w].pc = IF config[w].parallel_execution
                                  THEN "parallel" ELSE "sequential"]
    /\ UNCHANGED <<config, oracle, coordVars, llmVars, agVars, toolVars>>

\* Mutant: a parallel path that is a stub returning no results.
ExecuteParallel_Stub(w) ==
    /\ wf[w].pc = "parallel"
    /\ wf' = [wf EXCEPT ![w].results = <<>>, ![w].i = Len(config[w].steps) + 1,
                        ![w].pc = "loop"]
    /\ UNCHANGED <<config, oracle, coordVars, llmVars, agVars, toolVars>>

\* _execute_parallel: falls back to _execute_sequential.
ExecuteParallel(w) ==
    /\ wf[w].pc = "parallel"
    /\ wf' = [wf EXCEPT ![w].pc = "sequential"]
    /\ UNCHANGED <<config, oracle, coordVars, llmVars, agVars, toolVars>>

\* _execute_sequential, line 101: results = []
ExecuteSequential(w) ==
    /\ wf[w].pc = "sequential"
    /\ wf' = [wf EXCEPT ![w].results = <<>>, ![w].i = 1, ![w].pc = "loop"]
    /\ UNCHANGED <<config, oracle, coordVars, llmVars, agVars, toolVars>>

\* Lines 103-111 and 126: the first execution of the next step.
FirstAttempt(w) ==
    /\ wf[w].pc = "loop"
    /\ wf[w].i <= Len(config[w].steps)
    /\ \E raises \in BOOLEAN :
       LET st == ExecuteStepStatus(raises)
           c  == Called(w, st)
           r  == StepResult(config[w].steps[wf[w].i], st)
       IN  /\ DelegateToWorkpool(w, raises)
           /\ wf' = [wf EXCEPT
                     ![w].calls        = c.calls,
                     ![w].trace        = c.trace,
                     ![w].result       = st,
                     ![w].results      = Append(@, r),
                     ![w].step_results = Append(@, r),
                     ![w].retry_count  = IF st = FAILED THEN 0 ELSE @,
                     ![w].current_step = IF st = FAILED THEN @ ELSE @ + 1,
                     ![w].i            = IF st = FAILED THEN @ ELSE @ + 1,
                     ![w].pc           = IF st = FAILED THEN "retry" ELSE "loop"]
    /\ UNCHANGED <<config, coordVars, llmVars, agVars, toolVars>>

\* Mutant: the retry loop runs once too often.
RetryAllowed_OffByOne(w) == wf[w].retry_count <= config[w].retry_attempts

\* The guard of the retry loop, line 114.
RetryAllowed(w) == wf[w].retry_count < config[w].retry_attempts

\* Mutant: the retry loop has no break on COMPLETED.
Retry_NoBreak(w) ==
    /\ wf[w].pc = "retry"
    /\ RetryAllowed(w)
    /\ \E raises \in BOOLEAN :
       LET st == ExecuteStepStatus(raises)
           c  == Called(w, st)
       IN  /\ DelegateToWorkpool(w, raises)
           /\ wf' = [wf EXCEPT
                     ![w].calls       = c.calls,
                     ![w].trace       = c.trace,
                     ![w].result      = st,
                     ![w].retry_count = @ + 1]
    /\ UNCHANGED <<config, coordVars, llmVars, agVars, toolVars>>

\* Lines 114-119: one iteration of the retry loop.
Retry(w) ==
    /\ wf[w].pc = "retry"
    /\ RetryAllowed(w)
    /\ \E raises \in BOOLEAN :
       LET st == ExecuteStepStatus(raises)
           c  == Called(w, st)
       IN  /\ DelegateToWorkpool(w, raises)
           /\ wf' = [wf EXCEPT
                     ![w].calls       = c.calls,
                     ![w].trace       = c.trace,
                     ![w].result      = st,
                     ![w].retry_count = IF st = COMPLETED THEN @ ELSE @ + 1,
                     ![w].pc          = IF st = COMPLETED THEN "retried" ELSE "retry"]
    /\ UNCHANGED <<config, coordVars, llmVars, agVars, toolVars>>

\* Line 114: the retry loop ends because the attempts are used up.
RetryExhausted(w) ==
    /\ wf[w].pc = "retry"
    /\ ~RetryAllowed(w)
    /\ wf' = [wf EXCEPT ![w].pc = "retried"]
    /\ UNCHANGED <<config, oracle, coordVars, llmVars, agVars, toolVars>>

\* Mutant: a step that stayed FAILED does not abort the workflow.
AfterRetry_NoAbort(w) ==
    /\ wf[w].pc = "retried"
    /\ wf' = [wf EXCEPT ![w].current_step = @ + 1, ![w].i = @ + 1, ![w].pc = "loop"]
    /\ UNCHANGED <<config, oracle, coordVars, llmVars, agVars, toolVars>>

\* Lines 122-126: after the retry loop, abort or go on to the next step.
AfterRetry(w) ==
    /\ wf[w].pc = "retried"
    /\ IF wf[w].result = FAILED
       THEN wf' = [wf EXCEPT ![w].exc = TRUE, ![w].pc = "except_step"]
       ELSE wf' = [wf EXCEPT ![w].current_step = @ + 1, ![w].i = @ + 1,
                             ![w].pc = "loop"]
    /\ UNCHANGED <<config, oracle, coordVars, llmVars, agVars, toolVars>>

\* Lines 128-136: the handler in _execute_sequential records a FAILED result
\* in the local list and re-raises.
ExceptStep(w) ==
    /\ wf[w].pc = "except_step"
    /\ wf' = [wf EXCEPT
                 ![w].results = Append(@, StepResult(config[w].steps[wf[w].i], FAILED)),
                 ![w].pc      = "except_execute"]
    /\ UNCHANGED <<config, oracle, coordVars, llmVars, agVars, toolVars>>

\* Mutant: execute logs the error and re-raises it.
ExceptExecute_Reraise(w) ==
    /\ wf[w].pc = "except_execute"
    /\ wf' = [wf EXCEPT ![w].status = FAILED, ![w].pc = "done"]
    /\ UNCHANGED <<config, oracle, coordVars, llmVars, agVars, toolVars>>

\* execute, lines 90-97: the handler of execute returns the error dict.
ExceptExecute(w) ==
    /\ wf[w].pc = "except_execute"
    /\ wf' = [wf EXCEPT ![w].status = FAILED, ![w].exc = FALSE,
                        ![w].ret = FAILED, ![w].pc = "done"]
    /\ UNCHANGED <<config, oracle, coordVars, llmVars, agVars, toolVars>>

\* Line 138 and execute, lines 83-88: all steps done, return the results dict.
ReturnResults(w) ==
    /\ wf[w].pc = "loop"
    /\ wf[w].i > Len(config[w].steps)
    /\ wf' = [wf EXCEPT ![w].status = COMPLETED, ![w].ret = COMPLETED,
                        ![w].pc = "done"]
    /\ UNCHANGED <<config, oracle, coordVars, llmVars, agVars, toolVars>>

WfNext ==
    \E w \in Objs :
        \/ Execute(w)
        \/ ExecuteParallel(w)
        \/ ExecuteSequential(w)
        \/ FirstAttempt(w)
        \/ Retry(w)
        \/ RetryExhausted(w)
        \/ AfterRetry(w)
        \/ ExceptStep(w)
        \/ ExceptExecute(w)
        \/ ReturnResults(w)

WfSpec == WfInit /\ [][WfNext]_vars

\* The event loop runs a started coroutine until it returns.
WfFairSpec == WfSpec /\ WF_vars(WfNext)

(***************************************************************************)
(* agent_coordinator.py: AgentCoordinator; base_agent.py: BaseAgent        *)
(***************************************************************************)
AgentTypes == {"coder", "tester"}

AgentIds == {1, 2}

\* An agent is known by its config: agent_type and agent_id.
Agents == [agent_type : AgentTypes, agent_id : AgentIds]

\* The agent types a task can require: one of them is never registered.
RequiredTypes == AgentTypes \cup {"reviewer"}

\* What process_task returns: a dict with some of the keys, or something
\* that is not a dict (BaseAgent.process_task is abstract).
Outputs ==
    {[is_dict |-> TRUE, keys |-> k] :
        k \in SUBSET {"status", "result"} \cup {{"status", "result", "notes"}}}
        \cup {[is_dict |-> FALSE, keys |-> {}]}

\* Mutant: assign_task lets the exception out instead of returning a dict.
ErrorResult_Reraised == TaskResult("raised", {}, << >>)

\* Lines 82-88: the dict returned when _coordinate_agents raised.
ErrorResult == TaskResult("error", {"status", "task_id", "error"}, << >>)

Positions(agent) == {p \in 1..Len(active_agents) : active_agents[p] = agent}

\* register_agent: a new key is added at the end of the dict, an existing
\* key keeps its place.
RegisterAgent(agent) ==
    /\ at.pc \in {"idle", "returned"}
    /\ active_agents' = IF Positions(agent) # {} THEN active_agents
                        ELSE Append(active_agents, agent)
    /\ UNCHANGED <<task_queue, at, wfVars, coordVars, llmVars, toolVars>>

\* _find_agent_by_type: the first agent of the type in dict order, or None
\* (the empty sequence).
FindAgentByType(agent_type) ==
    LET found == {p \in 1..Len(active_agents) :
                     active_agents[p].agent_type = agent_type}
    IN  IF found = {} THEN << >>
        ELSE <<active_agents[CHOOSE p \in found : \A q \in found : p <= q]>>

\* Mutant: only the first required type is looked up.
SuitableAgents_FirstOnly(required_agents) ==
    IF required_agents = << >> THEN << >>
    ELSE FindAgentByType(Head(required_agents))

\* assign_task, lines 61-65: the agents found for required_agents, in order.
RECURSIVE SuitableAgents(_)
SuitableAgents(required_agents) ==
    IF required_agents = << >> THEN << >>
    ELSE FindAgentByType(Head(required_agents)) \o SuitableAgents(Tail(required_agents))

\* assign_task up to the call of _coordinate_agents.
AssignTask(required_agents) ==
    /\ at.pc \in {"idle", "returned"}
    /\ LET suitable_agents == SuitableAgents(required_agents)
       IN  at' = IF suitable_agents = << >>
                 THEN [IdleAssign EXCEPT
                          !.pc = "returned",
                          !.required_agents = required_agents,
                          !.ret = TaskResult("error", {"status", "message", "task_id"}, << >>)]
                 ELSE [IdleAssign EXCEPT
                          !.pc = "process_task",
                          !.required_agents = required_agents,
                          !.suitable_agents = suitable_agents,
                          !.i = 1]
    /\ UNCHANGED <<active_agents, task_queue, wfVars, coordVars, llmVars, toolVars>>

\* _coordinate_agents, line 108: the agent's process_task returns an output
\* or raises; assign_task catches what it raises (lines 82-88).
ProcessTask(raises, output) ==
    /\ at.pc = "process_task"
    /\ LET invoked == Append(at.invoked, <<"process_task", at.suitable_agents[at.i]>>)
       IN  at' = IF raises
                 THEN [at EXCEPT !.invoked = invoked, !.pc = "returned", !.ret = ErrorResult]
                 ELSE [at EXCEPT !.invoked = invoked, !.pc = "validate_output",
                                 !.result = output,
                                 !.outputs = Append(at.outputs, output)]
    /\ UNCHANGED <<active_agents, task_queue, wfVars, coordVars, llmVars, toolVars>>

\* Mutant: validate_output looks for the "status" key only.
ValidOutput_StatusOnly(output) == "status" \in output.keys

\* BaseAgent.validate_output: all(key in output for key in required_keys).
ValidOutput(output) == {"status", "result"} \subseteq output.keys

\* _coordinate_agents, lines 116-128, and the return of assign_task:
\* validate_output raises on an output that is no dict, a valid output is
\* appended and the loop goes on, an invalid one raises ValueError.
ValidateOutput ==
    /\ at.pc = "validate_output"
    /\ LET invoked == Append(at.invoked, <<"validate_output", at.suitable_agents[at.i]>>)
           results == Append(at.results, at.result)
       IN  at' = IF ~at.result.is_dict \/ ~ValidOutput(at.result)
                 THEN [at EXCEPT !.invoked = invoked, !.pc = "returned", !.ret = ErrorResult]
                 ELSE IF at.i < Len(at.suitable_agents)
                 THEN [at EXCEPT !.invoked = invoked, !.results = results,
                                 !.i = at.i + 1, !.pc = "process_task"]
                 ELSE [at EXCEPT !.invoked = invoked, !.results = results,
                                 !.pc = "returned",
                                 !.ret = TaskResult("success",
                                                    {"status", "task_id", "results"},
                                                    results)]
    /\ UNCHANGED <<active_agents, task_queue, wfVars, coordVars, llmVars, toolVars>>

AgInit ==
    /\ active_agents = << >>
    /\ task_queue = << >>
    /\ at = IdleAssign
    /\ WfIdle
    /\ CoordIdle
    /\ LlmIdle
    /\ ToolIdle

AgNext ==
    \/ \E agent \in Agents : RegisterAgent(agent)
    \/ \E required_agents \in SeqsUpTo(RequiredTypes, MaxRequired) :
          AssignTask(required_agents)
    \/ \E raises \in BOOLEAN, output \in Outputs : ProcessTask(raises, output)
    \/ ValidateOutput

AgSpec == AgInit /\ [][AgNext]_vars

(***************************************************************************)
(* tools/web_search.py: WebSearchTool.search;                              *)
(* tools/semantic_search.py: SemanticSearchTool.search_codebase            *)
(***************************************************************************)
Tools == {"web_search", "semantic_search"}

Queries == {"convex", "rate limiter"}

Min(a, b) == IF a < b THEN a ELSE b

\* Python's range(n) as a sequence: 0, ..., n - 1, empty for n <= 0.
RECURSIVE Range(_)
Range(n) == IF n <= 0 THEN << >> ELSE Append(Range(n - 1), n - 1)

\* Mutant: the mock list is not capped at three.
MockIndices_Uncapped(max_results) == Range(max_results)

\* The indices the mock lists are built over: range(min(max_results, 3)).
MockIndices(max_results) == Range(Min(max_results, 3))

\* _mock_search_results and _mock_semantic_results: one result per index,
\* made of the index (url, file_path, relevance_score) and the query.
MockResults(query, max_results) ==
    LET indices == MockIndices(max_results)
    IN  [k \in 1..Len(indices) |-> [i |-> indices[k], query |-> query]]

\* search / search_codebase up to the await of the mock method.
Search(tool, query, max_results) ==
    /\ search.pc \in {"idle", "returned"}
    /\ search' = [IdleSearch EXCEPT !.pc = "mock", !.tool = tool, !.query = query,
                                    !.max_results = max_results]
    /\ UNCHANGED <<wfVars, coordVars, llmVars, agVars>>

\* The mock method returns its list (it raises nothing for an int
\* max_results), and the search method returns that list.
SearchReturns ==
    /\ search.pc = "mock"
    /\ search' = [search EXCEPT !.pc = "returned",
                                !.results = MockResults(search.query, search.max_results)]
    /\ UNCHANGED <<wfVars, coordVars, llmVars, agVars>>

ToolInit ==
    /\ search = IdleSearch
    /\ WfIdle
    /\ CoordIdle
    /\ LlmIdle
    /\ AgIdle

ToolNext ==
    \/ \E tool \in Tools, query \in Queries, max_results \in (-MaxResults)..MaxResults :
          Search(tool, query, max_results)
    \/ SearchReturns

ToolSpec == ToolInit /\ [][ToolNext]_vars

(***************************************************************************)
(* Properties of DevelopmentWorkflow.execute                               *)
(***************************************************************************)
Done(w) == wf[w].pc = "done"

\* The executions of the step at position p, in order (their statuses).
ExecsAt(t, p) ==
    LET sel == SelectSeq(t, LAMBDA e : e.pos = p)
    IN  [k \in 1..Len(sel) |-> sel[k].status]

\* How many of the first k entries of t are executions of position p.
CountUpTo(t, p, k) == Cardinality({j \in 1..k : t[j].pos = p})

Last(q) == q[Len(q)]

\* C2: the steps are attempted strictly in config.steps order: the first
\* execution is of step 1, every further execution is either a retry of the
\* step that just FAILED or the first execution of the next step after a
\* COMPLETED result, and nothing is executed after a step that stayed FAILED
\* through all its retries.
C2_SequentialOrder ==
    \A w \in Objs :
        LET t == wf[w].trace
            s == config[w].steps
        IN  \A k \in 1..Len(t) :
               /\ t[k].pos \in 1..Len(s)
               /\ t[k].step = s[t[k].pos]
               /\ k = 1 => t[k].pos = 1
               /\ k > 1 => \/ t[k].pos = t[k-1].pos /\ t[k-1].status = FAILED
                           \/ t[k].pos = t[k-1].pos + 1 /\ t[k-1].status = COMPLETED
               /\ ( /\ t[k].status = FAILED
                    /\ CountUpTo(t, t[k].pos, k) = 1 + config[w].retry_attempts )
                  => k = Len(t)

\* C2 witness: a finished run in which step 1 failed, completed on a retry,
\* and step 2 was then attempted.
C2_Witness ==
    \E w \in Objs :
        /\ Done(w)
        /\ \E k \in 1..Len(wf[w].trace) :
              wf[w].trace[k].pos = 1 /\ wf[w].trace[k].status = FAILED
        /\ \E k \in 1..Len(wf[w].trace) : wf[w].trace[k].pos = 2

\* C3: a step is re-executed at most retry_attempts times, never after a
\* COMPLETED result, and the retries stop early only on COMPLETED: once the
\* run is over, every attempted step either ended COMPLETED or was executed
\* 1 + retry_attempts times (so with retry_attempts = 0 a failed step aborts
\* the workflow after its single execution).
C3_BoundedRetries ==
    \A w \in Objs :
        LET t == wf[w].trace
            R == config[w].retry_attempts
        IN  \A p \in 1..Len(config[w].steps) :
               LET e == ExecsAt(t, p)
               IN  /\ Len(e) <= 1 + R
                   /\ \A k \in 1..Len(e) : k < Len(e) => e[k] = FAILED
                   /\ (Done(w) /\ Len(e) > 0)
                         => \/ Last(e) = COMPLETED
                            \/ Len(e) = 1 + R /\ wf[w].status = FAILED
                                              /\ Last(t).pos = p
                   /\ (R = 0 /\ Len(e) > 0 /\ e[1] = FAILED)
                         => Len(e) = 1 /\ Last(t).pos = p
                                       /\ wf[w].pc \in {"retry", "retried", "except_step",
                                                        "except_execute", "done"}

\* C3 witness: a finished run with the default retry_attempts = 3 in which a
\* step was executed four times and stayed FAILED, after an earlier step
\* had completed on a retry.
C3_Witness ==
    \E w \in Objs :
        /\ Done(w)
        /\ config[w].retry_attempts = 3
        /\ Len(ExecsAt(wf[w].trace, 2)) = 4
        /\ Last(wf[w].trace).status = FAILED
        /\ Len(ExecsAt(wf[w].trace, 1)) \in 2..3

\* The workflow aborted: line 124 raised, or execute has returned FAILED.
Aborted(w) ==
    \/ wf[w].pc \in {"except_step", "except_execute"}
    \/ Done(w) /\ wf[w].status = FAILED

\* C23: when the workflow has aborted, the step that stayed FAILED
\* has been executed exactly config.retry_attempts times in total.
C23_AttemptsAsLogged ==
    \A w \in Objs :
        Aborted(w) =>
            Len(ExecsAt(wf[w].trace, Last(wf[w].trace).pos)) = config[w].retry_attempts

\* The bound of C4 on the number of step executions.
C4_CallsBounded == \A w \in Objs : wf[w].calls <= MaxCalls(config[w])

\* C4: execute makes at most len(steps) * (1 + retry_attempts) step
\* executions and terminates with status COMPLETED or FAILED.
C4_Termination ==
    /\ []C4_CallsBounded
    /\ <>(\A w \in Objs : Done(w) /\ wf[w].status \in {COMPLETED, FAILED})

\* C4 witness: a finished run over several steps that used every execution
\* the bound allows.
C4_Witness ==
    \E w \in Objs :
        /\ Done(w)
        /\ Len(config[w].steps) >= 2
        /\ config[w].retry_attempts >= 1
        /\ wf[w].calls = MaxCalls(config[w])

\* C5: under the same pattern of step failures, the run with
\* parallel_execution = True makes the same step executions in the same
\* order and ends with the same step_results, current_step and status as
\* the run with parallel_execution = False.
C5_ParallelIsSequential ==
    /\ config[2] = [config[1] EXCEPT !.parallel_execution = TRUE]
    /\ ~config[1].parallel_execution
    /\ (Done(1) /\ Done(2)) =>
          /\ wf[2].trace        = wf[1].trace
          /\ wf[2].step_results = wf[1].step_results
          /\ wf[2].current_step = wf[1].current_step
          /\ wf[2].status       = wf[1].status
          /\ wf[2].ret          = wf[1].ret

\* C5 witness: both runs are over, with retries and an abort in them.
C5_Witness ==
    /\ Done(1) /\ Done(2)
    /\ config[2].parallel_execution
    /\ Len(wf[2].trace) >= 3
    /\ wf[2].current_step >= 1
    /\ wf[2].status = FAILED

\* Whether the step at position p ended with a COMPLETED result.
EndedCompleted(w, p) ==
    LET e == ExecsAt(wf[w].trace, p) IN Len(e) > 0 /\ Last(e) = COMPLETED

\* Whether the step at position p was still FAILED after its retries.
StayedFailed(w, p) ==
    LET e == ExecsAt(wf[w].trace, p)
    IN  Len(e) = 1 + config[w].retry_attempts /\ \A k \in 1..Len(e) : e[k] = FAILED

\* C6: execute never lets an exception out; it returns a dict whose status
\* is the final status of the workflow, COMPLETED exactly when every step
\* ended with a COMPLETED result and FAILED exactly when some step was still
\* FAILED after its retries.
C6_NoExceptionEscapes ==
    \A w \in Objs :
        Done(w) =>
            /\ ~wf[w].exc
            /\ wf[w].ret = wf[w].status
            /\ wf[w].status \in {COMPLETED, FAILED}
            /\ wf[w].status = COMPLETED
                  <=> \A p \in 1..Len(config[w].steps) : EndedCompleted(w, p)
            /\ wf[w].status = FAILED
                  <=> \E p \in 1..Len(config[w].steps) : StayedFailed(w, p)

\* C6 witness: execute returned the error dict after the abort of a step
\* that followed a completed one.
C6_Witness ==
    \E w \in Objs :
        /\ Done(w)
        /\ wf[w].ret = FAILED
        /\ EndedCompleted(w, 1)
        /\ StayedFailed(w, 2)

(***************************************************************************)
(* Properties of WorkflowCoordinator                                       *)
(***************************************************************************)
\* C1: the number of workflow instances whose coordinator status is RUNNING
\* never exceeds max_concurrent_workflows.
C1_BoundedConcurrency ==
    RunningCount(active_workflows) <= max_concurrent_workflows

\* A step of a start_development_workflow call, and the project it is for.
StartStep == co.pc # "idle" \/ co'.pc # "idle"

StartProject == IF co.pc # "idle" THEN co.project_id ELSE co'.project_id

\* C11: when start_development_workflow returns, workflow_queue is empty or
\* at least max_concurrent_workflows instances are RUNNING.
C11_QueuedStartedWhenCapacity ==
    [][StartReturns =>
          \/ workflow_queue' = << >>
          \/ RunningCount(active_workflows') >= max_concurrent_workflows]_vars

\* C12: no step of start_development_workflow for one project changes what
\* get_project_workflows returns for another project.
C12_ProjectIsolation ==
    [][StartStep =>
          \A a \in Projects \ {StartProject} :
              ProjectWorkflows(active_workflows', a)
                  = ProjectWorkflows(active_workflows, a)]_vars

\* C13: for a workflow_id that is not a key of active_workflows,
\* get_workflow_status returns None, pause_workflow, resume_workflow and
\* cancel_workflow return False, and active_workflows (so every status) and
\* workflow_queue stay as they are.
C13_UnknownWorkflowId ==
    [][\A id \in WorkflowIds :
          ( /\ ~Known(id)
            /\ \/ GetWorkflowStatus(id)
               \/ PauseWorkflow(id)
               \/ ResumeWorkflow(id)
               \/ CancelWorkflow(id) )
          => /\ active_workflows' = active_workflows
             /\ workflow_queue' = workflow_queue
             /\ IF returned'.method = "get_workflow_status"
                THEN returned'.value = NoInfo
                ELSE returned'.value = FALSE]_vars

\* C13 witness: cancel_workflow was called with an unknown id on a
\* coordinator that holds workflows, and returned False.
C13_Witness ==
    /\ returned.method = "cancel_workflow"
    /\ returned.value = FALSE
    /\ DOMAIN active_workflows # {}
    /\ workflow_queue # << >>

\* C14: cancel_workflow on a known workflow returns True and leaves the
\* instance CANCELLED, its workflow object CANCELLED and completed_at set;
\* no other instance and nothing in workflow_queue changes.
C14_CancelKnown ==
    [][\A id \in WorkflowIds :
          (Known(id) /\ CancelWorkflow(id))
          => /\ returned'.method = "cancel_workflow"
             /\ returned'.value = TRUE
             /\ DOMAIN active_workflows' = DOMAIN active_workflows
             /\ active_workflows'[id].status = CANCELLED
             /\ active_workflows'[id].workflow_object.status = CANCELLED
             /\ active_workflows'[id].completed_at
             /\ \A k \in DOMAIN active_workflows \ {id} :
                   active_workflows'[k].status = active_workflows[k].status
             /\ workflow_queue' = workflow_queue]_vars

\* C14 witness: a workflow waiting in the queue was cancelled while others
\* were RUNNING.
C14_Witness ==
    /\ returned.method = "cancel_workflow"
    /\ returned.value = TRUE
    /\ \E id \in DOMAIN active_workflows :
          /\ active_workflows[id].status = CANCELLED
          /\ active_workflows[id].workflow_object.status = CANCELLED
          /\ workflow_queue = <<id>>
    /\ RunningCount(active_workflows) >= 2

\* C15: cleanup_completed_workflows removes only instances that are
\* COMPLETED, FAILED or CANCELLED, have completed_at set and are older than
\* max_age_hours (their age is 0); it leaves the others as they are and
\* returns the number of instances it removed.
C15_CleanupOnlyFinished ==
    [][\A h \in MaxAgeHours :
          CleanupCompletedWorkflows(h)
          => LET removed == DOMAIN active_workflows \ DOMAIN active_workflows'
             IN  /\ DOMAIN active_workflows' \subseteq DOMAIN active_workflows
                 /\ \A id \in removed :
                       /\ active_workflows[id].status \in {COMPLETED, FAILED, CANCELLED}
                       /\ active_workflows[id].completed_at
                       /\ 0 > h * 60 * 60 * 1000
                 /\ \A id \in DOMAIN active_workflows' :
                       active_workflows'[id] = active_workflows[id]
                 /\ returned'.method = "cleanup_completed_workflows"
                 /\ returned'.value = Cardinality(removed)]_vars

\* C15 witness: a cleanup removed workflows and left a RUNNING one whose
\* completed_at is set.
C15_Witness ==
    /\ returned.method = "cleanup_completed_workflows"
    /\ returned.value >= 1
    /\ \E id \in DOMAIN active_workflows :
          active_workflows[id].status = RUNNING /\ active_workflows[id].completed_at

\* C19: pause_workflow sets a RUNNING instance PENDING and returns True; it
\* leaves the status of an instance that is not RUNNING as it is.
C19_PauseOnlyRunning ==
    [][\A id \in WorkflowIds :
          (Known(id) /\ PauseWorkflow(id))
          => IF active_workflows[id].status = RUNNING
             THEN active_workflows'[id].status = PENDING /\ returned'.value = TRUE
             ELSE active_workflows'[id].status = active_workflows[id].status]_vars

\* C20: resume_workflow never sets a COMPLETED, FAILED or CANCELLED instance
\* RUNNING: such an instance is not a paused one, whatever happened before.
C20_ResumeOnlyPaused ==
    [][\A id \in WorkflowIds :
          (Known(id) /\ ResumeWorkflow(id))
          => ( active_workflows[id].status \in {COMPLETED, FAILED, CANCELLED}
               => active_workflows'[id].status # RUNNING )]_vars

(***************************************************************************)
(* Properties of AgentCoordinator.assign_task                              *)
(***************************************************************************)
\* A step on which assign_task returns.
AssignTaskReturns ==
    /\ at'.pc = "returned"
    /\ \/ at.pc # "returned"
       \/ \E required_agents \in SeqsUpTo(RequiredTypes, MaxRequired) :
             AssignTask(required_agents)

NoSuitableAgents(ret) == ret.status = "error" /\ "message" \in ret.keys

Registered(agent_type) ==
    \E p \in 1..Len(active_agents) : active_agents[p].agent_type = agent_type

\* C16: assign_task returns the 'No suitable agents found' error exactly
\* when no registered agent has a type listed in task.required_agents, and
\* then no process_task or validate_output has been invoked.
C16_NoSuitableAgents ==
    [][AssignTaskReturns =>
          /\ NoSuitableAgents(at'.ret)
                <=> ~\E k \in 1..Len(at'.required_agents) :
                        Registered(at'.required_agents[k])
          /\ NoSuitableAgents(at'.ret) => at'.invoked = << >>]_vars

\* C16 witness: agents are registered, the task requires a type, none of the
\* registered agents has it, and assign_task returned the error.
C16_Witness ==
    /\ at.pc = "returned"
    /\ NoSuitableAgents(at.ret)
    /\ at.required_agents # << >>
    /\ Len(active_agents) >= 2
    /\ at.invoked = << >>

\* An output that has both keys validate_output requires.
HasRequiredKeys(output) ==
    output.is_dict /\ "status" \in output.keys /\ "result" \in output.keys

\* The types of the agents in `agents` occur in this order in required_agents.
InRequiredOrder(agents, required_agents) ==
    \E f \in [1..Len(agents) -> 1..Len(required_agents)] :
        /\ \A k \in 1..Len(agents) : required_agents[f[k]] = agents[k].agent_type
        /\ \A k \in 1..Len(agents) : \A l \in 1..Len(agents) : k < l => f[k] < f[l]

\* C17: the selected agents are in required_agents order; the k-th agent's
\* process_task is followed by its validate_output before anything else is
\* invoked; every result kept so far has the two required keys; after an
\* output without them nothing more is invoked and the error returned has
\* no results; a success carries the outputs of all selected agents, one
\* each, in order.
C17_ValidatedInOrder ==
    /\ InRequiredOrder(at.suitable_agents, at.required_agents)
    /\ \A k \in 1..Len(at.invoked) :
          at.invoked[k] = <<IF k % 2 = 1 THEN "process_task" ELSE "validate_output",
                            at.suitable_agents[(k + 1) \div 2]>>
    /\ \A k \in 1..Len(at.results) :
          HasRequiredKeys(at.results[k]) /\ at.results[k] = at.outputs[k]
    /\ \A k \in 1..Len(at.outputs) :
          (~HasRequiredKeys(at.outputs[k]) /\ Len(at.invoked) >= 2 * k)
          => /\ at.pc = "returned"
             /\ Len(at.invoked) = 2 * k
             /\ at.ret.status = "error"
             /\ "results" \notin at.ret.keys
             /\ at.ret.results = << >>
    /\ (at.pc = "returned" /\ at.ret.status = "success")
          => /\ "results" \in at.ret.keys
             /\ at.ret.results = at.outputs
             /\ Len(at.ret.results) = Len(at.suitable_agents)
             /\ Len(at.invoked) = 2 * Len(at.suitable_agents)

\* C17 witness: the first of two selected agents gave a valid output, the
\* second one an output without 'result', and assign_task returned the error.
C17_Witness ==
    /\ at.pc = "returned"
    /\ Len(at.suitable_agents) = 2
    /\ at.suitable_agents[1] # at.suitable_agents[2]
    /\ Len(at.results) = 1
    /\ Len(at.outputs) = 2
    /\ at.outputs[2].is_dict
    /\ at.outputs[2].keys = {"status"}
    /\ Len(at.invoked) = 4
    /\ at.ret.status = "error"

Starved ==
    /\ co.pc = "idle"
    /\ RunningCount(active_workflows) < max_concurrent_workflows
    /\ \E k \in 1..Len(workflow_queue) :
          /\ Known(workflow_queue[k])
          /\ active_workflows[workflow_queue[k]].status = PENDING

\* The coordinator's own steps: those it takes without a new call.
OwnStep ==
    \/ ProcessWorkflowQueue
    \/ \E workflow_status \in {COMPLETED, FAILED} : ExecuteReturns(workflow_status)
    \/ StartReturns

\* C24: a workflow left PENDING in workflow_queue is started once capacity
\* is free, without a further submission: whenever one waits while fewer
\* than max_concurrent_workflows instances are RUNNING, the coordinator has
\* a step of its own to take (weak fairness of its steps then starts it).
C24_NoStarvation == Starved => ENABLED OwnStep

\* assign_task is over and the last agent method it awaited raised:
\* process_task (nothing was validated after it) or validate_output (on an
\* output that is no dict).
AgentRaised ==
    /\ at.pc = "returned"
    /\ at.invoked # << >>
    /\ Len(at.invoked) % 2 = 1 \/ ~at.result.is_dict

\* C25, the result: after an agent's process_task or validate_output raised,
\* assign_task has returned a dict with status error and the task_id, and
\* the method that raised is the last one invoked.
C25_ErrorReturned ==
    AgentRaised =>
        /\ at.ret.status = "error"
        /\ {"status", "task_id"} \subseteq at.ret.keys
        /\ "results" \notin at.ret.keys
        /\ Len(at.invoked) \in {2 * at.i - 1, 2 * at.i}
        /\ Last(at.invoked)[2] = at.suitable_agents[at.i]

\* C25: assign_task never lets out what an agent's process_task or
\* validate_output raised: it returns the error dict and runs no later
\* agent, and no step of assign_task changes active_agents or task_queue.
C25_NoExceptionPropagates ==
    /\ []C25_ErrorReturned
    /\ [][at' # at => UNCHANGED <<active_agents, task_queue>>]_vars

\* C25 witness: the first of two selected agents gave a valid output, the
\* process_task of the second one raised, and assign_task returned.
C25_Witness ==
    /\ AgentRaised
    /\ Len(at.suitable_agents) = 2
    /\ at.suitable_agents[1] # at.suitable_agents[2]
    /\ Len(at.invoked) = 3
    /\ Len(at.results) = 1
    /\ Len(active_agents) >= 3

(***************************************************************************)
(* Properties of LLMManager.generate_response                              *)
(***************************************************************************)
Returned == call.pc = "returned"

Other(provider) == IF provider = GPT THEN CLAUDE ELSE GPT

Configured(provider) ==
    \/ provider = GPT /\ llm.gpt
    \/ provider = CLAUDE /\ llm.claude

Responds(provider) == call.outcome[provider] = "response"

\* C7: no call makes more than two provider attempts or tries a provider
\* twice; with provider omitted, fallback enabled and both providers
\* configured, a primary that yields no response is followed by exactly one
\* attempt on the other provider, whose response is returned when it gives
\* one, and a primary that responds is followed by no further call.
C7_ProviderFallback ==
    /\ Len(call.attempts) <= 2
    /\ Len(call.attempts) = 2 => call.attempts[1] # call.attempts[2]
    /\ ( /\ Returned
         /\ call.provider = None
         /\ llm.enable_fallback
         /\ llm.gpt /\ llm.claude ) =>
          LET primary == call.attempts[1]
          IN  /\ primary = call.selected_provider
              /\ primary \in {GPT, CLAUDE}
              /\ IF Responds(primary)
                 THEN /\ call.attempts = <<primary>>
                      /\ call.called = <<primary>>
                      /\ call.response = primary
                 ELSE /\ call.attempts = <<primary, Other(primary)>>
                      /\ call.called = <<primary, Other(primary)>>
                      /\ call.response =
                            IF Responds(Other(primary)) THEN Other(primary) ELSE None

\* C7 witness: the primary provider raised and the response of the fallback
\* provider was returned.
C7_Witness ==
    /\ Returned
    /\ call.provider = None /\ llm.enable_fallback /\ llm.gpt /\ llm.claude
    /\ call.outcome[GPT] = "raises"
    /\ call.attempts = <<GPT, CLAUDE>>
    /\ call.response = CLAUDE

\* C8: with provider omitted and fallback enabled, generate_response returns
\* a response exactly when some configured provider gives one, so None only
\* when every configured provider fails or none is configured.
C8_NoneOnlyIfAllFailed ==
    (Returned /\ call.provider = None /\ llm.enable_fallback) =>
        ( call.response # None
            <=> \E p \in {GPT, CLAUDE} : Configured(p) /\ Responds(p) )

\* C8 witness: the preferred provider gave no response and the call still
\* returned the response of the other configured provider.
C8_Witness ==
    /\ Returned
    /\ call.provider = None /\ llm.enable_fallback
    /\ call.task_type = "code_analysis"
    /\ llm.gpt /\ llm.claude
    /\ call.outcome[CLAUDE] = "none"
    /\ call.response = GPT

\* C9: with an explicit provider GPT or CLAUDE, or with enable_fallback
\* false, exactly one provider is attempted (the explicit one, or the
\* auto-selected primary) and the other provider is never called.
C9_ExplicitProviderNoFallback ==
    (Returned /\ (call.provider \in {GPT, CLAUDE} \/ ~llm.enable_fallback)) =>
        LET expected == IF call.provider # None THEN call.provider
                        ELSE call.selected_provider
        IN  /\ call.attempts = <<expected>>
            /\ \A k \in 1..Len(call.called) : call.called[k] = expected
            /\ call.response \in {None, expected}

\* C9 witness: the explicit provider failed, the other one would have
\* answered, and the call returned None without calling it.
C9_Witness ==
    /\ Returned
    /\ call.provider = GPT
    /\ llm.enable_fallback /\ llm.gpt /\ llm.claude
    /\ call.outcome = [p \in {GPT, CLAUDE} |-> IF p = GPT THEN "none" ELSE "response"]
    /\ call.called = <<GPT>>
    /\ call.response = None

\* generate_response has been called (and may have returned).
InGenerateResponse == call.pc \in {"primary", "fallback", "returned"}

\* The provider the routing table prefers for a task type.
Preferred(task_type) ==
    IF task_type \in {"code_generation", "general"} THEN GPT ELSE CLAUDE

\* C10: _select_provider returns the preferred provider of the task type
\* when it is configured, the other provider when only that one is, and GPT
\* when none is; never AUTO, and a configured provider whenever there is one.
C10_StaticRouting ==
    (InGenerateResponse /\ call.provider = None) =>
        LET pref == Preferred(call.task_type)
            sel  == call.selected_provider
        IN  /\ sel = ( IF Configured(pref) THEN pref
                       ELSE IF Configured(Other(pref)) THEN Other(pref)
                       ELSE GPT )
            /\ sel # AUTO
            /\ (llm.gpt \/ llm.claude) => Configured(sel)

\* C10 witness: a task type that prefers CLAUDE was routed to GPT because
\* only GPT is configured.
C10_Witness ==
    /\ InGenerateResponse
    /\ call.provider = None
    /\ call.task_type = "architecture"
    /\ llm.gpt /\ ~llm.claude
    /\ call.selected_provider = GPT

(***************************************************************************)
(* Properties of LLMManager.generate_code and analyze_code                 *)
(***************************************************************************)
\* C18: generate_code and analyze_code return None only if no configured
\* provider can answer: when GPT or Claude is configured and responds, what
\* the method returned is not None.
C18_BestAvailableLLM ==
    ( /\ call.pc \in {"generate_code", "analyze_code"}
      /\ \E provider \in {GPT, CLAUDE} : Configured(provider) /\ Responds(provider) )
    => call.response # None

(***************************************************************************)
(* Properties of WebSearchTool.search and                                  *)
(* SemanticSearchTool.search_codebase                                      *)
(***************************************************************************)
\* C22: a search returns max_results results when 0 <= max_results <= 3,
\* three when max_results > 3 and none when max_results < 0, numbered from
\* 0; so never more than three, and never more than a max_results >= 0.
C22_MaxResultsBounds ==
    search.pc = "returned" =>
        LET n == Len(search.results)
            m == search.max_results
        IN  /\ n = (IF m < 0 THEN 0 ELSE IF m <= 3 THEN m ELSE 3)
            /\ n <= 3
            /\ m >= 0 => n <= m
            /\ \A k \in 1..n : search.results[k].i = k - 1

\* C22 witness: each tool has returned three results for a max_results
\* above three; here the semantic search.
C22_Witness ==
    /\ search.pc = "returned"
    /\ search.tool = "semantic_search"
    /\ search.max_results > 3
    /\ Len(search.results) = 3

====
